---- MODULE Spec2Model ----
(***************************************************************************)
(* A model of crabzilla: the import_fn attribute macro (import_fn/src/     *)
(* lib.rs), the Runtime that registers imported functions, generates the   *)
(* JavaScript glue and loads modules (crabzilla/src/lib.rs), and the two   *)
(* imported functions of crabzilla-tests/src/main.rs.                      *)
(*                                                                         *)
(* Rust Strings that the code inspects character by character (names and   *)
(* scopes) are sequences of code points; token strings that the code only  *)
(* compares as a whole are TLA+ strings.                                   *)
(***************************************************************************)
EXTENDS Integers, Sequences, FiniteSets, TLC

VARIABLES
    decl,            \* build time: the function declaration given to #[import_fn]
    expansion,       \* build time: what import_fn returned for it
    imported_names,  \* Runtime.imported_names
    scopes,          \* Runtime.scopes
    op_table,        \* Runtime.runtime: the engine's registered ops, in order
    ops_cache,       \* Runtime.runtime: names the script side cached by Deno.core.ops()
    error_map,       \* Runtime.runtime: classes given to Deno.core.registerErrorClass
    window,          \* Runtime.runtime: the bindings of the script global object
    glue_runs,       \* number of times the glue source was handed to execute
    glue_outcome,    \* how the last execution of the glue ended
    registered,      \* history: every ImportedFn handed to import, in order
    loaded,          \* history: a load_module call has begun
    erred,           \* history: a load_module call has returned Err
    pc,              \* "idle", or "evaluating" inside load_module
    result,          \* what the last finished load_module returned
    last_call,       \* the last statement of the module being evaluated
    panic            \* "none", or the place where the process panicked

vars == <<decl, expansion, imported_names, scopes, op_table, ops_cache, error_map,
          window, glue_runs, glue_outcome, registered, loaded, erred, pc, result,
          last_call, panic>>

buildVars == <<decl, expansion>>

sessionVars == <<imported_names, scopes, op_table, ops_cache, error_map, window,
                 glue_runs, glue_outcome, registered, loaded, erred, pc, result,
                 last_call, panic>>

(***************************************************************************)
(* Bounds of the model.                                                    *)
(***************************************************************************)
MaxMetas == 2
MaxImports == 2
MaxFinish == 2

(***************************************************************************)
(* Strings as code points.                                                 *)
(***************************************************************************)
sEmpty == << >>
sRead == <<114, 101, 97, 100>>
sSayHello == <<115, 97, 121, 72, 101, 108, 108, 111>>
sStdin == <<83, 116, 100, 105, 110>>
sStdout == <<83, 116, 100, 111, 117, 116>>
sSpaced == <<83, 116, 32, 105, 110>>
sAccent == <<233>>
sQuoted == <<113, 34>>

\* Option<String>
None == [some |-> FALSE, val |-> sEmpty]
Some(s) == [some |-> TRUE, val |-> s]

\* char::is_ascii
is_ascii(c) == c <= 127

\* char::is_whitespace: the code points with the Unicode White_Space property
is_whitespace(c) ==
    \/ c \in 9..13
    \/ c \in {32, 133, 160, 5760, 8232, 8233, 8239, 8287, 12288}
    \/ c \in 8192..8202

validate_literal(name) ==
    /\ Len(name) > 0
    /\ \A i \in 1..Len(name) : is_ascii(name[i]) /\ ~is_whitespace(name[i])

(***************************************************************************)
(* import_fn: the attribute arguments.                                     *)
(***************************************************************************)
\* A NestedMeta: form is "name_value" (key = lit), "path" (a bare word), "list"
\* (word(...)) or "lit" (a bare literal); lit_kind is "str" or "int".
Meta(form, key, lit_kind, val) ==
    [form |-> form, key |-> key, lit_kind |-> lit_kind, val |-> val]

MetaPool ==
    { Meta("name_value", "name", "str", sRead),
      Meta("name_value", "name", "str", sEmpty),
      Meta("name_value", "name", "str", sAccent),
      Meta("name_value", "name", "int", sEmpty),
      Meta("name_value", "scope", "str", sStdin),
      Meta("name_value", "scope", "str", sSpaced),
      Meta("name_value", "alias", "str", sRead),
      Meta("path", "sync", "str", sEmpty) }

ImportOptionsDefault == [scope |-> None, name |-> None]

ParseOk(options) == [ok |-> TRUE, options |-> options, msg |-> "", span |-> "none"]
ParseErr(msg, span) ==
    [ok |-> FALSE, options |-> ImportOptionsDefault, msg |-> msg, span |-> span]

\* One turn of parse_meta's loop: the options after `meta`, or the error returned.
parse_one(options, meta) ==
    IF meta.form # "name_value" THEN ParseErr("Unsupported meta", "meta")
    ELSE IF meta.key = "scope" THEN
        IF meta.lit_kind # "str" THEN ParseErr("Unsupported value", "lit")
        ELSE IF ~validate_literal(meta.val) THEN ParseErr("Invalid scope", "lit")
        ELSE ParseOk([options EXCEPT !.scope = Some(meta.val)])
    ELSE IF meta.key = "name" THEN
        IF meta.lit_kind # "str" THEN ParseErr("Unsupported value", "lit")
        ELSE IF ~validate_literal(meta.val) THEN ParseErr("Invalid name", "lit")
        ELSE ParseOk([options EXCEPT !.name = Some(meta.val)])
    ELSE ParseErr("Unsupported meta", "meta")

RECURSIVE parse_from(_, _, _)
parse_from(metas, i, options) ==
    IF i > Len(metas) THEN ParseOk(options)
    ELSE LET r == parse_one(options, metas[i])
         IN IF r.ok THEN parse_from(metas, i + 1, r.options) ELSE r

parse_meta(metas) == parse_from(metas, 1, ImportOptionsDefault)

(***************************************************************************)
(* import_fn: the signature.                                               *)
(***************************************************************************)
\* sig.inputs is a sequence of [pat, ty]; to_token_stream().to_string() renders
\* each as "pat : ty" and joins them with " , ".
RECURSIVE InputsToString(_)
InputsToString(inputs) ==
    IF Len(inputs) = 0 THEN ""
    ELSE IF Len(inputs) = 1 THEN inputs[1].pat \o " : " \o inputs[1].ty
    ELSE inputs[1].pat \o " : " \o inputs[1].ty \o " , " \o InputsToString(Tail(inputs))

\* sig.output is "default" (no arrow) or the type after the arrow.
OutputToString(output) == IF output = "default" THEN "" ELSE "-> " \o output

inputs_accepted_AnyPattern(inputs) ==
    \/ Len(inputs) = 0
    \/ /\ Len(inputs) = 1
       /\ inputs[1].ty \in { "Vec < Value >", "Vec < crabzilla :: Value >",
                             "std :: vec :: Vec < Value >",
                             "std :: vec :: Vec < crabzilla :: Value >",
                             ":: vec :: Vec < Value >",
                             ":: vec :: Vec < crabzilla :: Value >" }

\* The first match of import_fn: the argument spellings it lets through.
inputs_accepted(inputs) ==
    InputsToString(inputs) \in
        { "",
          "args : Vec < Value >",
          "args : Vec < crabzilla :: Value >",
          "args : std :: vec :: Vec < Value >",
          "args : std :: vec :: Vec < crabzilla :: Value >",
          "args : :: vec :: Vec < Value >",
          "args : :: vec :: Vec < crabzilla :: Value >" }

\* The closure handed to create_sync_fn: `wrap` tells how the block is wrapped,
\* "ok_block" for Ok(#block) and "block_ok_null" for #block Ok(Value::Null).
Closure(wrap, block) == [wrap |-> wrap, block |-> block]

\* The generated fn #ident() -> ImportedFn { create_sync_fn(closure, name, scope) }
Factory(ident, closure, name, scope) ==
    [ident |-> ident, closure |-> closure, name |-> name, scope |-> scope]

NoFactory == Factory(sEmpty, Closure("none", "none"), sEmpty, None)

Tokens(factory) == [kind |-> "factory", factory |-> factory, msg |-> "", span |-> "none"]
CompileError(span, msg) ==
    [kind |-> "compile_error", factory |-> NoFactory, msg |-> msg, span |-> span]
MacroPanic == [kind |-> "panic", factory |-> NoFactory, msg |-> "not yet implemented",
               span |-> "none"]
NotExpanded == [kind |-> "none", factory |-> NoFactory, msg |-> "", span |-> "none"]

\* Option::unwrap_or
unwrap_or(opt, default) == IF opt.some THEN opt.val ELSE default

quote_without_return(ident, block, crab_meta) ==
    Tokens(Factory(ident, Closure("ok_block", block),
                   unwrap_or(crab_meta.name, ident), crab_meta.scope))

quote_with_return(ident, block, crab_meta) ==
    Tokens(Factory(ident, Closure("block_ok_null", block),
                   unwrap_or(crab_meta.name, ident), crab_meta.scope))

import_fn(d) ==
    LET crab_meta == parse_meta(d.metas) IN
    IF ~crab_meta.ok THEN CompileError(crab_meta.span, crab_meta.msg)
    ELSE IF ~inputs_accepted(d.inputs)
    THEN CompileError("inputs",
                      "Illegal arguments, should be empty or \"args: Vec<Value>\"")
    ELSE IF d.asyncness THEN MacroPanic
    ELSE IF OutputToString(d.output) \in {"-> crabzilla :: Value", "-> Value"}
    THEN quote_without_return(d.ident, d.block, crab_meta.options)
    ELSE IF OutputToString(d.output) \in {"-> ()", ""}
    THEN quote_with_return(d.ident, d.block, crab_meta.options)
    ELSE CompileError("output", "Illegal return type, should be empty or \"Value\"")


(***************************************************************************)
(* Values, results and the bodies of imported functions.                   *)
(***************************************************************************)
\* serde_json Value, as far as the functions here use it; Unit is the value of a
\* block of type ().
Null == [kind |-> "Null", s |-> sEmpty]
String(s) == [kind |-> "String", s |-> s]
Unit == [kind |-> "()", s |-> sEmpty]

sAda == <<65, 100, 97>>

Ok(v) == [ok |-> TRUE, val |-> v, msg |-> ""]
Err(m) == [ok |-> FALSE, val |-> Null, msg |-> m]

\* What running a block did: it ran to its end with value val, or returned early
\* with Err(msg); out is the line it printed.
Completed(v, out) == [early |-> FALSE, val |-> v, msg |-> "", out |-> out]
Returned(m, out) == [early |-> TRUE, val |-> Unit, msg |-> m, out |-> out]

NoLine == [printed |-> FALSE, prefix |-> "", s |-> sEmpty]
Line(prefix, s) == [printed |-> TRUE, prefix |-> prefix, s |-> s]

\* stdin().read_line: an io error, or the bytes up to and including the newline
StdinOk(bytes) == [ok |-> TRUE, bytes |-> bytes]
StdinErr == [ok |-> FALSE, bytes |-> sEmpty]
StdinInputs == { StdinErr, StdinOk(<<10>>), StdinOk(sAda \o <<10>>) }

\* String::pop
pop(buffer) == IF Len(buffer) = 0 THEN buffer ELSE SubSeq(buffer, 1, Len(buffer) - 1)

\* throw!(message): return Err(custom_error("Error", message))
throw(message, out) == Returned(message, out)

read_from_stdin(args, input) ==
    IF ~input.ok THEN Returned("stream did not contain valid UTF-8",
                               Line("Type your name: ", sEmpty))
    ELSE LET buffer == pop(input.bytes) IN
         IF Len(buffer) = 0 THEN throw("Expected name!", Line("Type your name: ", sEmpty))
         ELSE Completed(String(buffer), Line("Type your name: ", sEmpty))

say_hello(args, input) ==
    IF Len(args) > 0 /\ args[1].kind = "String"
    THEN Completed(Unit, Line("Hello, ", args[1].s))
    ELSE Completed(Unit, NoLine)

\* A unit function that fails: { if args.is_empty() { throw!("Expected argument!"); } }
require_arg(args, input) ==
    IF Len(args) = 0 THEN throw("Expected argument!", NoLine)
    ELSE Completed(Unit, NoLine)

EvalBlock(block, args, input) ==
    CASE block = "read_from_stdin" -> read_from_stdin(args, input)
      [] block = "say_hello" -> say_hello(args, input)
      [] block = "require_arg" -> require_arg(args, input)
      [] OTHER -> Completed(Null, NoLine)

\* |args| -> Result<Value, AnyError> { Ok(#block) }
ok_block(o) == IF o.early THEN Err(o.msg) ELSE Ok(o.val)

block_ok_null_Swallow(o) == Ok(Null)

block_ok_null_ValueOfBlock(o) == IF o.early THEN Err(o.msg) ELSE Ok(o.val)

\* |args| -> Result<Value, AnyError> { #block Ok(Value::Null) }
block_ok_null(o) == IF o.early THEN Err(o.msg) ELSE Ok(Null)

\* Calling the closure that create_sync_fn was given.
CallClosure(closure, o) ==
    IF closure.wrap = "block_ok_null" THEN block_ok_null(o) ELSE ok_block(o)

\* get_args: the args array of the call payload, or unreachable!()
get_args(payload) ==
    IF payload.shape = "args" THEN [reached |-> TRUE, args |-> payload.args]
    ELSE [reached |-> FALSE, args |-> << >>]

create_sync_fn(imported_fn, name, scope) ==
    [op_fn |-> imported_fn, name |-> name, scope |-> scope, sync |-> TRUE]

\* Calling the generated factory function.
CallFactory(f) == create_sync_fn(f.closure, f.name, f.scope)

(***************************************************************************)
(* Build time: import_fn applied to a declaration.                         *)
(***************************************************************************)
SeqsUpTo(S, n) == UNION { [1..k -> S] : k \in 0..n }

Input(pat, ty) == [pat |-> pat, ty |-> ty]

InputTypes ==
    { "Vec < Value >", "Vec < crabzilla :: Value >", "std :: vec :: Vec < Value >",
      "std :: vec :: Vec < crabzilla :: Value >", ":: vec :: Vec < Value >",
      ":: vec :: Vec < crabzilla :: Value >", "Value" }

InputLists ==
    { << >> } \cup { <<Input(pat, ty)>> : pat \in {"args", "a"}, ty \in InputTypes }
              \cup { <<Input("args", "Vec < Value >"), Input("n", "Value")>> }

Outputs == { "default", "()", "Value", "crabzilla :: Value", "String" }

Declaration(ident, metas, inputs, asyncness, output, block) ==
    [ident |-> ident, metas |-> metas, inputs |-> inputs, asyncness |-> asyncness,
     output |-> output, block |-> block]

NoDecl == Declaration(sEmpty, << >>, << >>, FALSE, "default", "none")

Decls ==
    { Declaration(sSayHello, metas, inputs, asyncness, output, block) :
        metas \in SeqsUpTo(MetaPool, MaxMetas), inputs \in InputLists,
        asyncness \in BOOLEAN, output \in Outputs,
        block \in {"read_from_stdin", "require_arg"} }

Expand ==
    /\ decl # NoDecl
    /\ expansion = NotExpanded
    /\ expansion' = import_fn(decl)
    /\ UNCHANGED <<decl, sessionVars>>


(***************************************************************************)
(* The engine's op table (JsRuntime::register_op).                         *)
(***************************************************************************)
OpNames(table) == { table[i].name : i \in 1..Len(table) }

OpFn(table, name) == table[CHOOSE i \in 1..Len(table) : table[i].name = name].op_fn

\* OpTable::register_op asserts that the name was not registered before.
register_op(table, name, op_fn) ==
    IF name \in OpNames(table) THEN [ok |-> FALSE, table |-> table]
    ELSE [ok |-> TRUE, table |-> Append(table, [name |-> name, op_fn |-> op_fn])]

(***************************************************************************)
(* Runtime::new and Runtime::import.                                       *)
(***************************************************************************)
ImportedName(name, scope, sync) == [name |-> name, scope |-> scope, sync |-> sync]

\* The fields import works on; registered and panic are the model's record of
\* what was handed in and of a panic.
new ==
    [imported_names |-> << >>, scopes |-> << >>, op_table |-> << >>,
     registered |-> << >>, panic |-> "none"]

push_scope(scopes_, fn) ==
    IF fn.scope.some THEN Append(scopes_, fn.scope.val) ELSE scopes_

import(rt, fn) ==
    LET reg == register_op(rt.op_table, fn.name, fn.op_fn) IN
    IF ~reg.ok
    THEN [rt EXCEPT !.registered = Append(@, fn),
                    !.scopes = push_scope(@, fn),
                    !.panic = "register_op"]
    ELSE [rt EXCEPT !.registered = Append(@, fn),
                    !.scopes = push_scope(@, fn),
                    !.op_table = reg.table,
                    !.imported_names =
                        Append(@, ImportedName(fn.name, fn.scope, fn.sync))]

(***************************************************************************)
(* Runtime::importing_finished: the glue source.                           *)
(***************************************************************************)
\* format!("{:?}", s) for a String: quotes around the escaped characters.  The
\* strings used here hold no control or unprintable characters, which Rust would
\* write as \u{..}.
escape_char(c) ==
    CASE c = 34 -> <<92, 34>>
      [] c = 92 -> <<92, 92>>
      [] c = 9 -> <<92, 116>>
      [] c = 10 -> <<92, 110>>
      [] c = 13 -> <<92, 114>>
      [] OTHER -> <<c>>

RECURSIVE escape_chars(_)
escape_chars(s) ==
    IF Len(s) = 0 THEN << >> ELSE escape_char(Head(s)) \o escape_chars(Tail(s))

escape_debug(s) == <<34>> \o escape_chars(s) \o <<34>>

\* The value the script engine reads from a double-quoted string literal.
js_unescape(c) ==
    CASE c = 116 -> 9
      [] c = 110 -> 10
      [] c = 114 -> 13
      [] OTHER -> c

RECURSIVE js_chars(_)
js_chars(body) ==
    IF Len(body) = 0 THEN << >>
    ELSE IF Head(body) = 92 /\ Len(body) >= 2
    THEN <<js_unescape(body[2])>> \o js_chars(SubSeq(body, 3, Len(body)))
    ELSE <<Head(body)>> \o js_chars(Tail(body))

js_string_value(lit) == js_chars(SubSeq(lit, 2, Len(lit) - 1))

\* One statement of the glue.  kind is "ops" (Deno.core.ops()), "registerErrorClass",
\* "scope" (window[scope] = {}) or "stub" (window[scope][name] or window[name]
\* = (...args) => Deno.core.command(op, {args})); scope, name and op are literals.
GlueStmt(kind, scoped, scope, name, command, op) ==
    [kind |-> kind, scoped |-> scoped, scope |-> scope, name |-> name,
     command |-> command, op |-> op]

scope_definitions(scopes_) ==
    [i \in 1..Len(scopes_) |->
        GlueStmt("scope", TRUE, escape_debug(scopes_[i]), sEmpty, "", sEmpty)]

name_definition(import_) ==
    GlueStmt("stub", import_.scope.some,
             IF import_.scope.some THEN escape_debug(import_.scope.val) ELSE sEmpty,
             escape_debug(import_.name),
             IF import_.sync THEN "jsonOpSync" ELSE "jsonOpAsync",
             escape_debug(import_.name))

name_definitions(names) == [i \in 1..Len(names) |-> name_definition(names[i])]

GluePrelude ==
    << GlueStmt("ops", FALSE, sEmpty, sEmpty, "", sEmpty),
       GlueStmt("registerErrorClass", FALSE, sEmpty, sEmpty, "", sEmpty) >>

js_source_StubsFirst(scopes_, names) ==
    GluePrelude \o name_definitions(names) \o scope_definitions(scopes_)

js_source(scopes_, names) ==
    GluePrelude \o scope_definitions(scopes_) \o name_definitions(names)


(***************************************************************************)
(* The script side: the global object and the execution of the glue.       *)
(***************************************************************************)
\* A stub: (...args) => Deno.core.command(op, {args})
Stub(command, op) == [command |-> command, op |-> op]
NoStub == Stub("", sEmpty)

\* A binding of the global object: window[key] is an object ({}) or a function
\* (a stub); props are the properties assigned on it.
Binding(key, kind, stub, props) ==
    [key |-> key, kind |-> kind, stub |-> stub, props |-> props]

Undefined == Binding(sEmpty, "undefined", NoStub, {})

WindowGet(w, key) ==
    IF \E b \in w : b.key = key THEN CHOOSE b \in w : b.key = key ELSE Undefined

WindowSet(w, key, kind, stub) ==
    { b \in w : b.key # key } \cup { Binding(key, kind, stub, {}) }

PropGet(b, name) ==
    IF \E q \in b.props : q.name = name
    THEN (CHOOSE q \in b.props : q.name = name).stub
    ELSE NoStub

PropSet(w, b, name, stub) ==
    { c \in w : c.key # b.key } \cup
    { [b EXCEPT !.props = { q \in @ : q.name # name } \cup
                          { [name |-> name, stub |-> stub] }] }

\* The script-side state of the engine.
Js(w, cache, errors, thrown) ==
    [window |-> w, ops_cache |-> cache, error_map |-> errors, thrown |-> thrown]

\* One statement of the glue run on js.  reregister says whether the engine
\* throws when the class "Error" is registered a second time.
exec_stmt(js, st, op_table_, reregister) ==
    CASE st.kind = "ops" -> [js EXCEPT !.ops_cache = OpNames(op_table_)]
      [] st.kind = "registerErrorClass" ->
            IF "Error" \in js.error_map /\ reregister
            THEN [js EXCEPT !.thrown = "already_registered"]
            ELSE [js EXCEPT !.error_map = @ \cup {"Error"}]
      [] st.kind = "scope" ->
            [js EXCEPT !.window = WindowSet(@, js_string_value(st.scope), "object", NoStub)]
      [] st.kind = "stub" /\ ~st.scoped ->
            [js EXCEPT !.window =
                WindowSet(@, js_string_value(st.name), "function",
                          Stub(st.command, js_string_value(st.op)))]
      [] OTHER ->
            LET b == WindowGet(js.window, js_string_value(st.scope)) IN
            IF b.kind = "undefined"
            THEN [js EXCEPT !.thrown = "undefined_namespace"]
            ELSE [js EXCEPT !.window =
                    PropSet(@, b, js_string_value(st.name),
                            Stub(st.command, js_string_value(st.op)))]

RECURSIVE exec_from(_, _, _, _, _)
exec_from(js, source, i, op_table_, reregister) ==
    IF i > Len(source) \/ js.thrown # "none" THEN js
    ELSE exec_from(exec_stmt(js, source[i], op_table_, reregister), source, i + 1,
                   op_table_, reregister)

\* JsRuntime::execute("rust:core.js", &js_source)
execute(js, source, op_table_, reregister) ==
    exec_from([js EXCEPT !.thrown = "none"], source, 1, op_table_, reregister)

GlueOutcome(kind, stubs) == [kind |-> kind, stubs |-> stubs]

\* importing_finished on the runtime's fields: the script side after it, how the
\* execution ended, and whether expect("runtime exporting") panicked.
importing_finished(scopes_, names, op_table_, js, reregister) ==
    LET after == execute(js, js_source(scopes_, names), op_table_, reregister) IN
    [js |-> after,
     outcome |-> GlueOutcome(IF after.thrown = "none" THEN "ok" ELSE after.thrown,
                             Len(names)),
     panic |-> IF after.thrown = "none" THEN "none" ELSE "expect"]


(***************************************************************************)
(* The script side: a module's statements and the native call.             *)
(***************************************************************************)
\* The payload a script hands to the native call: shape "args" is an object with
\* an args array, "empty" is the object {} (the engine's default payload).
Payload(shape, args) == [shape |-> shape, args |-> args]

\* A top-level statement of a module: a call of scope.name(...args) or of
\* name(...args), or a direct Deno.core.jsonOpSync(op, payload).
ScriptCall(scope, name, args) ==
    [kind |-> "call", scope |-> scope, name |-> name, payload |-> Payload("args", args)]
ScriptNative(op, payload) ==
    [kind |-> "native", scope |-> None, name |-> op, payload |-> payload]

\* What a statement did: the op it reached (via a "stub" or a "native" call, or
\* "none"), the closure behind the op, whether the closure ran (reached), what its
\* block did, the closure's result, and what the script saw: a value, or a thrown
\* error with its message; panicked when native code panicked.
CallRec(via, scope, name, op, closure, reached, block, res, thrown, message, value, panicked) ==
    [via |-> via, scope |-> scope, name |-> name, op |-> op, closure |-> closure,
     reached |-> reached, block |-> block, result |-> res, thrown |-> thrown,
     message |-> message, value |-> value, panicked |-> panicked]

NoClosure == Closure("none", "none")
NoBlock == Completed(Unit, NoLine)

NoCall ==
    CallRec("none", None, sEmpty, sEmpty, NoClosure, FALSE, NoBlock, Ok(Null), FALSE,
            "", Null, FALSE)

ScriptThrew(scope, name, message) ==
    CallRec("none", scope, name, sEmpty, NoClosure, FALSE, NoBlock, Ok(Null), TRUE,
            message, Null, FALSE)

\* How the script side turns the op's response into a value or a thrown error;
\* the engine names every error's class "Error" (RuntimeOptions default).
surface(res, errors) ==
    IF res.ok THEN [thrown |-> FALSE, message |-> "", value |-> res.val]
    ELSE IF "Error" \in errors
    THEN [thrown |-> TRUE, message |-> res.msg, value |-> Null]
    ELSE [thrown |-> TRUE, message |-> "Unregistered error class", value |-> Null]

\* Deno.core.jsonOpSync(op, payload): the op made by json_op_sync in
\* create_sync_fn runs imported_fn(get_args(&value)).
json_op_sync(via, scope, name, op, payload, input, js, op_table_) ==
    IF op \notin js.ops_cache
    THEN CallRec(via, scope, name, op, NoClosure, FALSE, NoBlock, Ok(Null), TRUE,
                 "Unknown op", Null, FALSE)
    ELSE LET closure == OpFn(op_table_, op)
             a == get_args(payload)
         IN IF ~a.reached
            THEN CallRec(via, scope, name, op, closure, FALSE, NoBlock, Ok(Null),
                         FALSE, "", Null, TRUE)
            ELSE LET o == EvalBlock(closure.block, a.args, input)
                     res == CallClosure(closure, o)
                     seen == surface(res, js.error_map)
                 IN CallRec(via, scope, name, op, closure, TRUE, o, res, seen.thrown,
                            seen.message, seen.value, FALSE)

\* The stub the script finds at scope.name or at name, or NoStub.
Lookup(w, scope, name) ==
    IF scope.some
    THEN PropGet(WindowGet(w, scope.val), name)
    ELSE LET b == WindowGet(w, name) IN
         IF b.kind = "function" THEN b.stub ELSE NoStub

run_stmt(st, input, js, op_table_) ==
    IF st.kind = "native"
    THEN json_op_sync("native", None, st.name, st.name, st.payload, input, js, op_table_)
    ELSE LET stub == Lookup(js.window, st.scope, st.name) IN
         IF stub = NoStub
         THEN ScriptThrew(st.scope, st.name, "is not a function")
         ELSE json_op_sync("stub", st.scope, st.name, stub.op, st.payload, input, js,
                           op_table_)

(***************************************************************************)
(* Runtime::load_module.                                                   *)
(***************************************************************************)
\* The module given to load_module: whether its path resolves and whether the
\* loader finds it.
Module(resolves, loadable) == [resolves |-> resolves, loadable |-> loadable]
Modules == { Module(r, l) : r \in BOOLEAN, l \in BOOLEAN }

LoadOk == [kind |-> "ok", message |-> ""]
LoadErr(kind, message) == [kind |-> kind, message |-> message]
NoResult == [kind |-> "none", message |-> ""]

\* The ? operator on a step of load_module: a failure is returned as Err.
load_step(failed, kind, message) ==
    IF failed THEN [returned |-> TRUE, panic |-> "none", result |-> LoadErr(kind, message)]
    ELSE [returned |-> FALSE, panic |-> "none", result |-> NoResult]


(***************************************************************************)
(* The session: the functions it may import and the scripts it may run.    *)
(***************************************************************************)
sReadFromStdinIdent == <<114, 101, 97, 100, 95, 102, 114, 111, 109, 95, 115, 116, 100,
                         105, 110>>
sSayHelloIdent == <<115, 97, 121, 95, 104, 101, 108, 108, 111>>
sRequireArgIdent == <<114, 101, 113, 117, 105, 114, 101, 95, 97, 114, 103>>

NameIs(s) == Meta("name_value", "name", "str", s)
ScopeIs(s) == Meta("name_value", "scope", "str", s)
ArgsInput == <<Input("args", "Vec < Value >")>>

\* The two functions of crabzilla-tests, a unit function that can fail exposed
\* as Stdout.read, a function exposed under its own identifier Stdin, and one
\* whose name holds a double quote.
SessionDecls ==
    { Declaration(sReadFromStdinIdent, <<NameIs(sRead), ScopeIs(sStdin)>>, << >>,
                  FALSE, "Value", "read_from_stdin"),
      Declaration(sSayHelloIdent, <<NameIs(sSayHello), ScopeIs(sStdout)>>, ArgsInput,
                  FALSE, "default", "say_hello"),
      Declaration(sRequireArgIdent, <<NameIs(sRead), ScopeIs(sStdout)>>, ArgsInput,
                  FALSE, "()", "require_arg"),
      Declaration(sStdin, << >>, ArgsInput, FALSE, "default", "say_hello"),
      Declaration(sSayHelloIdent, <<NameIs(sQuoted)>>, << >>, FALSE,
                  "crabzilla :: Value", "read_from_stdin") }

MacroFns ==
    { CallFactory(import_fn(d).factory) : d \in { e \in SessionDecls :
                                                    import_fn(e).kind = "factory" } }

\* A function made by calling create_sync_fn directly, with a closure returning
\* Ok(Value::Null).
DirectFns == { create_sync_fn(Closure("closure", "ok_null"), sSpaced, Some(sAccent)) }

ArgLists == { << >>, <<String(sAda)>> }

\* The places a script calls: the five a session may expose, and read(), which no
\* session exposes.
ScriptPaths ==
    { <<Some(sStdin), sRead>>, <<Some(sStdout), sSayHello>>, <<Some(sStdout), sRead>>,
      <<None, sStdin>>, <<None, sQuoted>>, <<None, sRead>> }

ScriptStmts ==
    { ScriptCall(path[1], path[2], args) : path \in ScriptPaths, args \in ArgLists }
    \cup { ScriptNative(sRead, Payload("args", << >>)),
           ScriptNative(sRead, Payload("empty", << >>)),
           ScriptNative(sSayHello, Payload("empty", << >>)) }

(***************************************************************************)
(* The state machine.                                                      *)
(***************************************************************************)
SessionInit ==
    /\ imported_names = new.imported_names
    /\ scopes = new.scopes
    /\ op_table = new.op_table
    /\ registered = new.registered
    /\ panic = new.panic
    /\ ops_cache = {}
    /\ error_map = {}
    /\ window = {}
    /\ glue_runs = 0
    /\ glue_outcome = GlueOutcome("none", 0)
    /\ loaded = FALSE
    /\ erred = FALSE
    /\ pc = "idle"
    /\ result = NoResult
    /\ last_call = NoCall

Init ==
    /\ decl = NoDecl
    /\ expansion = NotExpanded
    /\ SessionInit

InitBuild ==
    /\ decl \in Decls
    /\ expansion = NotExpanded
    /\ SessionInit

Rt == [imported_names |-> imported_names, scopes |-> scopes, op_table |-> op_table,
       registered |-> registered, panic |-> panic]

JsNow == Js(window, ops_cache, error_map, "none")

Callable == panic = "none" /\ pc = "idle"

SetRt(rt) ==
    /\ imported_names' = rt.imported_names
    /\ scopes' = rt.scopes
    /\ op_table' = rt.op_table
    /\ registered' = rt.registered

SetJs(js) ==
    /\ window' = js.window
    /\ ops_cache' = js.ops_cache
    /\ error_map' = js.error_map

\* runtime.import(fn)
Import(fn) ==
    /\ Callable
    /\ Len(registered) < MaxImports
    /\ LET rt == import(Rt, fn) IN SetRt(rt) /\ panic' = rt.panic
    /\ UNCHANGED <<buildVars, ops_cache, error_map, window, glue_runs, glue_outcome,
                   loaded, erred, pc, result, last_call>>

ImportMacro == \E fn \in MacroFns : Import(fn)

ImportDirect == \E fn \in DirectFns : Import(fn)

\* runtime.importing_finished()
ImportingFinished ==
    /\ Callable
    /\ glue_runs < MaxFinish
    /\ \E reregister \in BOOLEAN :
         LET r == importing_finished(scopes, imported_names, op_table, JsNow, reregister)
         IN /\ SetJs(r.js)
            /\ glue_outcome' = r.outcome
            /\ panic' = r.panic
    /\ glue_runs' = glue_runs + 1
    /\ UNCHANGED <<buildVars, imported_names, scopes, op_table, registered, loaded,
                   erred, pc, result, last_call>>

RECURSIVE import_all(_, _, _)
import_all(rt, fns, i) ==
    IF i > Len(fns) \/ rt.panic # "none" THEN rt
    ELSE import_all(import(rt, fns[i]), fns, i + 1)

\* runtime! { fns }: Runtime::new(), import of each, importing_finished()
RuntimeMacro ==
    /\ Callable
    /\ registered = << >> /\ glue_runs = 0 /\ ~loaded
    /\ \E fns \in SeqsUpTo(MacroFns, MaxImports) :
         LET rt == import_all(new, fns, 1) IN
         /\ SetRt(rt)
         /\ IF rt.panic # "none"
            THEN /\ panic' = rt.panic
                 /\ UNCHANGED <<ops_cache, error_map, window, glue_runs, glue_outcome>>
            ELSE LET r == importing_finished(rt.scopes, rt.imported_names, rt.op_table,
                                             JsNow, FALSE)
                 IN /\ SetJs(r.js)
                    /\ glue_outcome' = r.outcome
                    /\ panic' = r.panic
                    /\ glue_runs' = glue_runs + 1
    /\ UNCHANGED <<buildVars, loaded, erred, pc, result, last_call>>

\* load_module(path), up to the start of the module's evaluation
LoadModule ==
    /\ Callable
    /\ loaded' = TRUE
    /\ last_call' = NoCall
    /\ \E m \in Modules :
         LET step == IF ~m.resolves
                     THEN load_step(TRUE, "resolve", "invalid path")
                     ELSE load_step(~m.loadable, "load", "module not found")
         IN /\ panic' = step.panic
            /\ IF step.returned
               THEN result' = step.result /\ erred' = TRUE /\ pc' = "idle"
               ELSE /\ UNCHANGED <<result, erred>>
                    /\ pc' = "evaluating"
    /\ UNCHANGED <<buildVars, imported_names, scopes, op_table, registered, ops_cache,
                   error_map, window, glue_runs, glue_outcome>>

\* mod_evaluate: one more top-level statement of the module runs; an error it
\* throws ends the evaluation and is what load_module returns
EvalStmt ==
    /\ panic = "none" /\ pc = "evaluating"
    /\ \E st \in ScriptStmts, input \in StdinInputs :
         LET call == run_stmt(st, input, JsNow, op_table)
             step == load_step(call.thrown, "eval", call.message)
         IN /\ last_call' = call
            /\ IF call.panicked
               THEN /\ panic' = "get_args"
                    /\ UNCHANGED <<result, erred, pc>>
               ELSE /\ panic' = step.panic
                    /\ IF step.returned
                       THEN result' = step.result /\ erred' = TRUE /\ pc' = "idle"
                       ELSE UNCHANGED <<result, erred, pc>>
    /\ UNCHANGED <<buildVars, imported_names, scopes, op_table, registered, ops_cache,
                   error_map, window, glue_runs, glue_outcome, loaded>>

\* mod_evaluate: the module ran to its end, and load_module returns Ok(())
EvalDone ==
    /\ panic = "none" /\ pc = "evaluating"
    /\ result' = LoadOk
    /\ pc' = "idle"
    /\ UNCHANGED <<buildVars, imported_names, scopes, op_table, registered, ops_cache,
                   error_map, window, glue_runs, glue_outcome, loaded, erred,
                   last_call, panic>>

Next ==
    \/ LoadModule
    \/ ImportMacro
    \/ ImportDirect
    \/ ImportingFinished
    \/ EvalStmt
    \/ EvalDone
    \/ RuntimeMacro

Spec == Init /\ [][Next]_vars

\* The expanded factory is called and the closure it made is run on args.
Invoke ==
    /\ expansion.kind = "factory"
    /\ \E args \in ArgLists, input \in StdinInputs :
         LET fn == CallFactory(expansion.factory) IN
         last_call' = json_op_sync("direct", fn.scope, fn.name, fn.name,
                                   Payload("args", args), input,
                                   Js({}, {fn.name}, {"Error"}, "none"),
                                   register_op(<< >>, fn.name, fn.op_fn).table)
    /\ UNCHANGED <<buildVars, imported_names, scopes, op_table, ops_cache, error_map,
                   window, glue_runs, glue_outcome, registered, loaded, erred, pc,
                   result, panic>>

NextBuild == Expand \/ Invoke

SpecBuild == InitBuild /\ [][NextBuild]_vars


(***************************************************************************)
(* Properties.                                                             *)
(***************************************************************************)
Path(fn) == <<fn.scope, fn.name>>

PathsDistinct(fns) ==
    \A i, j \in 1..Len(fns) : i # j => Path(fns[i]) # Path(fns[j])

\* The closure a script reaches when it calls the stub at scope.name (or name).
Dispatch(scope, name) ==
    LET stub == Lookup(window, scope, name) IN
    IF stub = NoStub \/ stub.op \notin ops_cache THEN NoClosure
    ELSE OpFn(op_table, stub.op)

NoDuplicates(seq) == \A i, j \in 1..Len(seq) : i # j => seq[i] # seq[j]

\* C1: whatever the sequence of new, import, importing_finished and load_module,
\* a session in which load_module has begun has executed the glue exactly once.
C1_GlueExactlyOnceBeforeLoad == loaded => glue_runs = 1

\* C2: when the registered paths (scope, name) are pairwise distinct, every
\* registration goes through, and once importing_finished has installed the stubs
\* of all of them, the stub at each path reaches the closure of the function
\* registered for that path.
C2_StubReachesOwnAdapter ==
    PathsDistinct(registered) =>
        /\ panic # "register_op"
        /\ (glue_outcome.kind = "ok" /\ glue_outcome.stubs = Len(registered)) =>
              \A i \in 1..Len(registered) :
                  Dispatch(registered[i].scope, registered[i].name) = registered[i].op_fn

\* C3: when the body of the function behind a stub returns early with Err(m),
\* under either wrapping the closure's result is Err(m) and the script sees a
\* thrown error with message m, never a value.
C3_ErrorReachesScript ==
    (last_call.via = "stub" /\ last_call.reached /\ last_call.block.early) =>
        /\ last_call.closure.wrap \in {"ok_block", "block_ok_null"}
        /\ last_call.result = Err(last_call.block.msg)
        /\ last_call.thrown
        /\ last_call.message = last_call.block.msg

C3_Witness ==
    /\ last_call.via = "stub"
    /\ last_call.closure.wrap = "block_ok_null"
    /\ last_call.reached /\ last_call.block.early
    /\ last_call.message = "Expected argument!"
    /\ result = LoadErr("eval", "Expected argument!")

UnitOutputs == {"default", "()"}
ValueOutputs == {"Value", "crabzilla :: Value"}

\* C4: when the body of an accepted declaration runs to its end, the closure made
\* for it returns Ok(Null) if the declared return type is empty or (), and
\* Ok(v), v the body's value, if it is Value.
C4_UnitGivesNull ==
    (expansion.kind = "factory" /\ last_call.via = "direct" /\ last_call.reached
        /\ ~last_call.block.early) =>
        /\ decl.output \in UnitOutputs => last_call.result = Ok(Null)
        /\ decl.output \in ValueOutputs => last_call.result = Ok(last_call.block.val)

C4_Witness ==
    /\ decl.output = "()" /\ decl.block = "require_arg"
    /\ last_call.via = "direct" /\ last_call.reached /\ ~last_call.block.early
    /\ last_call.result = Ok(Null)

\* C5: once importing_finished has run, no step changes the imported functions,
\* the declared scopes or the ops registered with the engine.
C5_RegistryReadOnlyAfterFinish ==
    [][glue_runs > 0 => /\ imported_names' = imported_names
                        /\ scopes' = scopes
                        /\ op_table' = op_table]_vars

\* C6: the declared scopes hold each scope name at most once.
C6_ScopesDeduplicated == NoDuplicates(scopes)

\* The rule of C7 as stated: the parameter list is empty or one parameter typed
\* as the sequence of Value, the return type is empty, unit or Value, not async.
VecOfValueTypes ==
    { "Vec < Value >", "Vec < crabzilla :: Value >", "std :: vec :: Vec < Value >",
      "std :: vec :: Vec < crabzilla :: Value >" }

ReferenceRule(d) ==
    /\ Len(d.inputs) = 0 \/ (Len(d.inputs) = 1 /\ d.inputs[1].ty \in VecOfValueTypes)
    /\ d.output \in UnitOutputs \cup ValueOutputs
    /\ ~d.asyncness

\* C7 as stated: import_fn accepts a declaration exactly when the reference rule
\* holds of it.
C7_AcceptsByReferenceRule ==
    expansion.kind # "none" => (expansion.kind = "factory" <=> ReferenceRule(decl))

SpelledVecTypes ==
    VecOfValueTypes \cup { ":: vec :: Vec < Value >", ":: vec :: Vec < crabzilla :: Value >" }

OptionsWellFormed(metas) ==
    \A i \in 1..Len(metas) :
        /\ metas[i].form = "name_value"
        /\ metas[i].key \in {"name", "scope"}
        /\ metas[i].lit_kind = "str"
        /\ Len(metas[i].val) > 0
        /\ \A k \in 1..Len(metas[i].val) :
              metas[i].val[k] <= 127 /\ ~is_whitespace(metas[i].val[k])

AmendedRule(d) ==
    /\ OptionsWellFormed(d.metas)
    /\ \/ Len(d.inputs) = 0
       \/ /\ Len(d.inputs) = 1
          /\ d.inputs[1].pat = "args"
          /\ d.inputs[1].ty \in SpelledVecTypes
    /\ d.output \in UnitOutputs \cup ValueOutputs
    /\ ~d.asyncness

\* C7, amended: import_fn accepts a declaration, producing a factory whose closure
\* is one of the two wrappings, exactly when its attribute arguments are name or
\* scope string literals that are non-empty, ASCII and free of whitespace, its
\* parameter list is empty or one parameter named args of a spelled Vec of Value
\* type, its return type is empty, (), Value or crabzilla::Value, and it is not
\* async; any other declaration yields a compile error or a panic of the macro,
\* and no factory.
C7_AcceptsByAmendedRule ==
    expansion.kind # "none" =>
        /\ expansion.kind = "factory" <=> AmendedRule(decl)
        /\ expansion.kind = "factory" =>
              expansion.factory.closure.wrap \in {"ok_block", "block_ok_null"}
        /\ expansion.kind # "factory" =>
              expansion.kind \in {"compile_error", "panic"} /\ expansion.factory = NoFactory
        /\ expansion.kind = "panic" => decl.asyncness

C7_Witness ==
    /\ expansion.kind = "factory"
    /\ Len(decl.inputs) = 1 /\ decl.inputs[1].ty = ":: vec :: Vec < Value >"
    /\ Len(decl.metas) = 2 /\ expansion.factory.name = sRead
    /\ expansion.factory.scope = Some(sStdin)

ValidName(s) ==
    /\ Len(s) > 0
    /\ \A k \in 1..Len(s) : s[k] <= 127 /\ ~is_whitespace(s[k])

\* C8: every imported function the registry holds has a name that is non-empty,
\* ASCII and free of whitespace, and a scope that is absent or of the same kind.
C8_RegistryNamesValid ==
    \A i \in 1..Len(imported_names) :
        /\ ValidName(imported_names[i].name)
        /\ imported_names[i].scope.some => ValidName(imported_names[i].scope.val)

\* C9: the process never panics inside load_module.
C9_LoadModuleNeverPanics == ~(pc = "evaluating" /\ panic # "none")

GlueNow == js_source(scopes, imported_names)

StubStmts(g) == SelectSeq(g, LAMBDA st : st.kind = "stub")

\* C10: in the glue made from the registry as it stands, every namespace creation
\* comes before every stub, the stubs are those of the imported functions in
\* registration order, every scoped stub follows a creation of its namespace, and
\* no execution of the glue has indexed an undefined namespace.
C10_GlueWellOrdered ==
    LET g == GlueNow
        stubs == StubStmts(g)
    IN /\ \A i, j \in 1..Len(g) : (g[i].kind = "scope" /\ g[j].kind = "stub") => i < j
       /\ Len(stubs) = Len(imported_names)
       /\ \A k \in 1..Len(stubs) :
             /\ js_string_value(stubs[k].name) = imported_names[k].name
             /\ js_string_value(stubs[k].op) = imported_names[k].name
             /\ stubs[k].scoped = imported_names[k].scope.some
             /\ stubs[k].scoped =>
                   js_string_value(stubs[k].scope) = imported_names[k].scope.val
       /\ \A j \in 1..Len(g) : (g[j].kind = "stub" /\ g[j].scoped) =>
             \E i \in 1..(j - 1) : g[i].kind = "scope" /\ g[i].scope = g[j].scope
       /\ glue_outcome.kind # "undefined_namespace"

C10_Witness ==
    /\ glue_outcome.kind = "ok" /\ glue_outcome.stubs = 2
    /\ Len(imported_names) = 2 /\ Len(scopes) = 2
    /\ scopes[1] = scopes[2]
    /\ Dispatch(imported_names[1].scope, imported_names[1].name) # NoClosure
    /\ Dispatch(imported_names[2].scope, imported_names[2].name) # NoClosure

====
